---- MODULE Spec2Model ----
(***************************************************************************)
(* Model of the reservation admission path (reserveLivestreamHandler) and  *)
(* of the response composers (fillLivestreamResponse[Bulk],                *)
(* fillReactionResponse[Bulk]) of webapp/go.                               *)
(*                                                                         *)
(* The relational store is modelled as committed tables plus, for every    *)
(* open transaction, its private uncommitted writes and the row locks it   *)
(* holds (InnoDB: writes and locking reads take row locks that are held    *)
(* until commit or rollback; other transactions never see uncommitted      *)
(* writes).  Times are Unix seconds scaled down to a TimeBits-wide signed  *)
(* integer so that the arithmetic of time.Unix keeps its wrap-around.      *)
(***************************************************************************)
EXTENDS Integers, Sequences, FiniteSets, TLC

\* ------------------------------------------------------------------ bounds
NumRequests == 2        \* concurrent reserveLivestreamHandler requests
MaxCapacity == 2        \* largest pre-seeded reservation_slots.slot
TimeBits == 5           \* width of the scaled int64 of start_at / end_at
MaxRows == 2            \* longest model list handed to a fill function
MaxReactions == 2       \* postReactionHandler requests served

\* --------------------------------------------------------------- constants
\* termStartAt / termEndAt as (scaled) Unix seconds, and the offset that
\* time.Unix adds to obtain the internal seconds of a time.Time.
TermStartAt == 1
TermEndAt == 5
UnixToInternal == 4

MinInt64 == -(2 ^ (TimeBits - 1))
MaxInt64 == (2 ^ (TimeBits - 1)) - 1
Int64 == MinInt64 .. MaxInt64

\* int64 addition of Go: wraps around on overflow.
Wrap64(x) == ((x - MinInt64) % (2 ^ TimeBits)) + MinInt64

\* time.Unix(sec, 0): the time.Time is held as sec + unixToInternal (int64).
timeUnix(sec) == Wrap64(sec + UnixToInternal)

\* time.Date(...) of the two horizon instants (no overflow for these dates).
termStartAt == TermStartAt + UnixToInternal
termEndAt == TermEndAt + UnixToInternal

\* Time.Equal / Time.After / Time.Before compare the internal seconds.
Equal(t, u) == t = u
After(t, u) == t > u
Before(t, u) == t < u

\* The horizon test of reserveLivestreamHandler: TRUE = "bad reservation
\* time range".
badReservationTimeRange(StartAt, EndAt) ==
    LET reserveStartAt == timeUnix(StartAt)
        reserveEndAt == timeUnix(EndAt)
    IN  (Equal(reserveStartAt, termEndAt) \/ After(reserveStartAt, termEndAt))
        \/ (Equal(reserveEndAt, termStartAt) \/ Before(reserveEndAt, termStartAt))

\* ------------------------------------------------------------- the tables
\* reservation_slots rows (id, start_at, end_at); the slot column is the
\* variable reservationSlots.  Two adjacent slots covering the horizon.
ReservationSlotRows ==
    { [ID |-> 1, StartAt |-> 1, EndAt |-> 3],
      [ID |-> 2, StartAt |-> 3, EndAt |-> 5] }
SlotIDs == { s.ID : s \in ReservationSlotRows }

Requests == 1 .. NumRequests
NoTx == 0


\* tags and users are read-only for this core; Spec seeds one of each, and
\* a request may name tag id 2, which does not exist.
TagIDs == {1, 2}
UserIDs == {1, 2}
SeedTags == { [ID |-> 1, Name |-> "t1"] }
SeedUsers == { [ID |-> 1] }

\* The requests of Spec: windows holding one slot, both slots, no slot
\* (partial overlap), reaching outside the horizon, and outside it.
Windows ==
    { <<1, 3>>, <<3, 5>>, <<1, 5>>, <<2, 4>>, <<0, 2>>, <<5, 6>> }
TagLists == { <<>>, <<1>>, <<1, 2>>, <<2, 1>> }

VARIABLES
    pc,                 \* position of each request inside the handler
    req,                \* decoded ReserveLivestreamRequest (+ session user)
    slots,              \* rows returned so far by SELECT ... FOR UPDATE
    livestreamID,       \* rs.LastInsertId()
    outcome,            \* what the handler returned
    seededSlots,        \* reservation_slots.slot as pre-seeded
    reservationSlots,   \* reservation_slots.slot, committed
    lockHolder,         \* transaction holding the row lock of each slot
    txUpdated,          \* slots decremented by an open transaction
    livestreams,        \* livestreams, committed
    livestreamTags,     \* livestream_tags, committed
    txLivestreams,      \* livestreams rows inserted by an open transaction
    txLivestreamTags,   \* livestream_tags rows inserted by an open transaction
    autoIncLivestream,  \* AUTO_INCREMENT of livestreams
    autoIncLivestreamTag, \* AUTO_INCREMENT of livestream_tags
    users,              \* users table (ids)
    tags,               \* tags table
    reactions,          \* reactions table
    autoIncReaction,    \* AUTO_INCREMENT of reactions
    lsModels,           \* argument of the last fillLivestreamResponse[Bulk] call
    lsBulk,             \* result of fillLivestreamResponseBulk(lsModels)
    lsSingle,           \* results of fillLivestreamResponse on each of lsModels
    rxModels,           \* argument of the last fillReactionResponse[Bulk] call
    rxBulk,             \* result of fillReactionResponseBulk(rxModels)
    rxSingle,           \* results of fillReactionResponse on each of rxModels
    lsQueries,          \* queries issued by the last fillLivestreamResponseBulk call
    rxQueries,          \* queries issued by the last fillReactionResponseBulk call
    fillCall,           \* which bulk composer was called last ("" = none yet)
    inKeys,             \* the key lists that call handed to sqlx.In, in order
    ctxErr,             \* ctx.Err() of each request ("" = nil)
    livecommentReports, \* livecomment_reports table
    httpReq,            \* the last request served by a read handler
    httpRes             \* and its response

handlerVars == <<pc, req, slots, livestreamID, outcome, ctxErr>>
storeVars == <<seededSlots, reservationSlots, lockHolder, txUpdated, livestreams,
               livestreamTags, txLivestreams, txLivestreamTags,
               autoIncLivestream, autoIncLivestreamTag, users, tags, reactions, autoIncReaction,
               livecommentReports>>
fillVars == <<lsModels, lsBulk, lsSingle, rxModels, rxBulk, rxSingle, lsQueries, rxQueries,
              fillCall, inKeys>>
readVars == <<httpReq, httpRes>>
vars == <<handlerVars, storeVars, fillVars, readVars>>


\* ------------------------------------------------------ response composers
\* Rows of a SELECT without ORDER BY come in primary-key order.
RECURSIVE SortByID(_)
SortByID(rows) ==
    IF rows = {} THEN <<>>
    ELSE LET first == CHOOSE x \in rows : \A y \in rows : x.ID <= y.ID
         IN  <<first>> \o SortByID(rows \ {first})

SeqRange(s) == { s[i] : i \in 1 .. Len(s) }

\* Go zero values and nil results
ZeroUser == [ID |-> 0]
ZeroLivestream == [ID |-> 0, Owner |-> ZeroUser, Tags |-> <<>>, StartAt |-> 0, EndAt |-> 0]
ZeroReaction == [ID |-> 0, User |-> ZeroUser, Livestream |-> ZeroLivestream, CreatedAt |-> 0]
NilMap == [x \in {} |-> ZeroLivestream]
Ok(v) == [err |-> "", val |-> v]
Err(msg, zero) == [err |-> msg, val |-> zero]

\* sqlx.In(query, ids): fails on an empty slice ("empty slice passed to
\* 'in' query"), otherwise expands the placeholder.
sqlxIn(ids) == Len(ids) > 0

\* fillUserResponse / fillUserResponseBulk (user_handler.go): a UserModel
\* row becomes its User entity; the bulk form keys the entities by id.
fillUserResponse(userModel) == [ID |-> userModel.ID]
fillUserResponseBulk(userModels) ==
    [id \in { userModels[i].ID : i \in 1 .. Len(userModels) } |-> [ID |-> id]]

toTag(tagModel) == [ID |-> tagModel.ID, Name |-> tagModel.Name]

\* fillLivestreamResponse(ctx, tx, livestreamModel) against the tables the
\* transaction sees.
fillLivestreamResponse(usersT, livestreamTagsT, tagsT, livestreamModel) ==
    LET ownerModels == { u \in usersT : u.ID = livestreamModel.UserID }
        livestreamTagModels ==
            SortByID({ lt \in livestreamTagsT : lt.LivestreamID = livestreamModel.ID })
        tagModelOf(i) == { tg \in tagsT : tg.ID = livestreamTagModels[i].TagID }
    IN  IF ownerModels = {} THEN Err("sql: no rows in result set", ZeroLivestream)
        ELSE IF \E i \in 1 .. Len(livestreamTagModels) : tagModelOf(i) = {}
        THEN Err("sql: no rows in result set", ZeroLivestream)
        ELSE Ok([ID |-> livestreamModel.ID,
                 Owner |-> fillUserResponse(CHOOSE u \in ownerModels : TRUE),
                 Tags |-> [i \in 1 .. Len(livestreamTagModels) |->
                              toTag(CHOOSE tg \in tagModelOf(i) : TRUE)],
                 StartAt |-> livestreamModel.StartAt,
                 EndAt |-> livestreamModel.EndAt])

\* a row whose owner was not fetched given the zero User, its tags left out
fillLivestreamResponseBulkDefaultOwner(usersT, livestreamTagsT, tagsT, livestreamModels) ==
    Ok([id \in { m.ID : m \in SeqRange(livestreamModels) } |->
          LET m == CHOOSE x \in SeqRange(livestreamModels) : x.ID = id
          IN  [ID |-> id,
               Owner |-> IF \E u \in usersT : u.ID = m.UserID THEN [ID |-> m.UserID]
                         ELSE ZeroUser,
               Tags |-> <<>>,
               StartAt |-> m.StartAt,
               EndAt |-> m.EndAt]])

\* fillLivestreamResponseBulk(ctx, tx, livestreamModels)
fillLivestreamResponseBulk(usersT, livestreamTagsT, tagsT, livestreamModels) ==
    LET n == Len(livestreamModels)
        userIDs == [i \in 1 .. n |-> livestreamModels[i].UserID]
        livestreamIDs == [i \in 1 .. n |-> livestreamModels[i].ID]
        ownerModels == SortByID({ u \in usersT : u.ID \in SeqRange(userIDs) })
        ownerMap == fillUserResponseBulk(ownerModels)
        livestreamTagModels ==
            SortByID({ lt \in livestreamTagsT : lt.LivestreamID \in SeqRange(livestreamIDs) })
        livestreamTagMap(id) ==
            SelectSeq(livestreamTagModels, LAMBDA lt : lt.LivestreamID = id)
        tagIDs == [i \in 1 .. Len(livestreamTagModels) |-> livestreamTagModels[i].TagID]
        tagModels == { tg \in tagsT : tg.ID \in SeqRange(tagIDs) }
        tagMap == [id \in { tg.ID : tg \in tagModels } |->
                      toTag(CHOOSE tg \in tagModels : tg.ID = id)]
        ownerMissing(m) == m.UserID \notin DOMAIN ownerMap
        tagMissing(m) ==
            \E lt \in SeqRange(livestreamTagMap(m.ID)) : lt.TagID \notin DOMAIN tagMap
        \* the first row at which the assembly loop returns an error
        firstBad == CHOOSE i \in 1 .. n :
                        /\ ownerMissing(livestreamModels[i]) \/ tagMissing(livestreamModels[i])
                        /\ \A j \in 1 .. (i - 1) :
                              ~ (ownerMissing(livestreamModels[j]) \/ tagMissing(livestreamModels[j]))
        build(m) ==
            LET lsTags == livestreamTagMap(m.ID)
            IN  [ID |-> m.ID,
                 Owner |-> ownerMap[m.UserID],
                 Tags |-> [i \in 1 .. Len(lsTags) |-> tagMap[lsTags[i].TagID]],
                 StartAt |-> m.StartAt,
                 EndAt |-> m.EndAt]
        \* a later row with the same id overwrites the map entry
        lastWith(id) == CHOOSE i \in 1 .. n :
                            /\ livestreamModels[i].ID = id
                            /\ \A j \in (i + 1) .. n : livestreamModels[j].ID # id
    IN  IF n = 0 THEN Ok(NilMap)
        ELSE IF ~ sqlxIn(userIDs) THEN Err("failed to build owner query", NilMap)
        ELSE IF ~ sqlxIn(livestreamIDs) THEN Err("failed to build livestream tag query", NilMap)
        ELSE IF ~ sqlxIn(tagIDs) THEN Err("failed to build tag query", NilMap)
        ELSE IF \E i \in 1 .. n :
                    ownerMissing(livestreamModels[i]) \/ tagMissing(livestreamModels[i])
        THEN IF ownerMissing(livestreamModels[firstBad])
             THEN Err("owner not found", NilMap)
             ELSE Err("tag not found", NilMap)
        ELSE Ok([id \in SeqRange(livestreamIDs) |-> build(livestreamModels[lastWith(id)])])


\* the reaction composed without looking its user and livestream up
fillReactionResponseUnchecked(usersT, livestreamsT, livestreamTagsT, tagsT, reactionModel) ==
    Ok([ID |-> reactionModel.ID, User |-> ZeroUser, Livestream |-> ZeroLivestream,
        CreatedAt |-> reactionModel.CreatedAt])

\* fillReactionResponse(ctx, tx, reactionModel)
fillReactionResponse(usersT, livestreamsT, livestreamTagsT, tagsT, reactionModel) ==
    LET userModels == { u \in usersT : u.ID = reactionModel.UserID }
        livestreamModels == { l \in livestreamsT : l.ID = reactionModel.LivestreamID }
        livestream == fillLivestreamResponse(usersT, livestreamTagsT, tagsT,
                                             CHOOSE l \in livestreamModels : TRUE)
    IN  IF userModels = {} THEN Err("sql: no rows in result set", ZeroReaction)
        ELSE IF livestreamModels = {} THEN Err("sql: no rows in result set", ZeroReaction)
        ELSE IF livestream.err # "" THEN Err(livestream.err, ZeroReaction)
        ELSE Ok([ID |-> reactionModel.ID,
                 User |-> fillUserResponse(CHOOSE u \in userModels : TRUE),
                 Livestream |-> livestream.val,
                 CreatedAt |-> reactionModel.CreatedAt])

\* fillReactionResponseBulk(ctx, tx, reactionModels)
fillReactionResponseBulk(usersT, livestreamsT, livestreamTagsT, tagsT, reactionModels) ==
    LET n == Len(reactionModels)
        userIDs == [i \in 1 .. n |-> reactionModels[i].UserID]
        livestreamIDs == [i \in 1 .. n |-> reactionModels[i].LivestreamID]
        userModels == SortByID({ u \in usersT : u.ID \in SeqRange(userIDs) })
        userMap == fillUserResponseBulk(userModels)
        livestreamModels ==
            SortByID({ l \in livestreamsT : l.ID \in SeqRange(livestreamIDs) })
        livestreamMap ==
            fillLivestreamResponseBulk(usersT, livestreamTagsT, tagsT, livestreamModels)
        userMissing(m) == m.UserID \notin DOMAIN userMap
        livestreamMissing(m) == m.LivestreamID \notin DOMAIN livestreamMap.val
        firstBad == CHOOSE i \in 1 .. n :
                        /\ userMissing(reactionModels[i]) \/ livestreamMissing(reactionModels[i])
                        /\ \A j \in 1 .. (i - 1) :
                              ~ (userMissing(reactionModels[j])
                                 \/ livestreamMissing(reactionModels[j]))
    IN  IF n = 0 THEN Ok(<<>>)
        ELSE IF ~ sqlxIn(userIDs) THEN Err("failed to build user query", <<>>)
        ELSE IF ~ sqlxIn(livestreamIDs) THEN Err("failed to build livestream query", <<>>)
        ELSE IF livestreamMap.err # ""
        THEN Err("failed to process livestream responses", <<>>)
        ELSE IF \E i \in 1 .. n :
                    userMissing(reactionModels[i]) \/ livestreamMissing(reactionModels[i])
        THEN IF userMissing(reactionModels[firstBad])
             THEN Err("user not found", <<>>)
             ELSE Err("livestream not found", <<>>)
        ELSE Ok([i \in 1 .. n |->
                    [ID |-> reactionModels[i].ID,
                     User |-> userMap[reactionModels[i].UserID],
                     Livestream |-> livestreamMap.val[reactionModels[i].LivestreamID],
                     CreatedAt |-> reactionModels[i].CreatedAt]])

\* ------------------------------------------------- queries of the composers
\* The statements a composer sends to the store itself, counted along its
\* control flow (what fillUserResponse[Bulk] sends is its own).  A composer
\* returns at its first error, so a failing call sends fewer.
LivestreamBulkQueries == 3      \* users, livestream_tags, tags
ReactionBulkQueries == 5        \* users, livestreams + LivestreamBulkQueries

\* join rows of the given livestream rows, as the IN query returns them
joinRowsOf(livestreamTagsT, livestreamModels) ==
    SortByID({ lt \in livestreamTagsT :
                 lt.LivestreamID \in { m.ID : m \in SeqRange(livestreamModels) } })

\* the tags fetched by one GetContext per join row
fillLivestreamResponseBulkQueriesPerRow(livestreamTagsT, livestreamModels) ==
    IF Len(livestreamModels) = 0 THEN 0
    ELSE 2 + Len(joinRowsOf(livestreamTagsT, livestreamModels))

\* the first queries sent before the test of len(livestreamModels)
fillLivestreamResponseBulkQueriesNoEarlyReturn(livestreamTagsT, livestreamModels) ==
    IF ~ sqlxIn(joinRowsOf(livestreamTagsT, livestreamModels)) THEN 2 ELSE 3

\* fillLivestreamResponseBulk: SelectContext on users, on livestream_tags
\* and on tags; sqlx.In on an empty tagIDs returns before the third.
fillLivestreamResponseBulkQueries(livestreamTagsT, livestreamModels) ==
    IF Len(livestreamModels) = 0 THEN 0
    ELSE IF ~ sqlxIn(joinRowsOf(livestreamTagsT, livestreamModels)) THEN 2
    ELSE 3

\* fillReactionResponseBulk: SelectContext on users and on livestreams, then
\* fillLivestreamResponseBulk on the livestream rows found.
fillReactionResponseBulkQueries(livestreamsT, livestreamTagsT, reactionModels) ==
    LET livestreamIDs == { m.LivestreamID : m \in SeqRange(reactionModels) }
        livestreamModels == SortByID({ l \in livestreamsT : l.ID \in livestreamIDs })
    IN  IF Len(reactionModels) = 0 THEN 0
        ELSE 2 + fillLivestreamResponseBulkQueries(livestreamTagsT, livestreamModels)

\* The slices handed to sqlx.In, in the order of the calls: userIDs and
\* livestreamIDs hold one element per input row, tagIDs one per join row
\* fetched (append in a loop over the rows, nothing removed).
fillLivestreamResponseBulkKeys(livestreamTagsT, livestreamModels) ==
    LET n == Len(livestreamModels)
        livestreamTagModels == joinRowsOf(livestreamTagsT, livestreamModels)
    IN  IF n = 0 THEN <<>>
        ELSE << [i \in 1 .. n |-> livestreamModels[i].UserID],
                [i \in 1 .. n |-> livestreamModels[i].ID],
                [i \in 1 .. Len(livestreamTagModels) |-> livestreamTagModels[i].TagID] >>

\* userIDs and livestreamIDs of fillReactionResponseBulk, then the slices
\* of the fillLivestreamResponseBulk call on the livestream rows found
fillReactionResponseBulkKeys(livestreamsT, livestreamTagsT, reactionModels) ==
    LET n == Len(reactionModels)
        livestreamIDs == { m.LivestreamID : m \in SeqRange(reactionModels) }
        livestreamModels == SortByID({ l \in livestreamsT : l.ID \in livestreamIDs })
    IN  IF n = 0 THEN <<>>
        ELSE << [i \in 1 .. n |-> reactionModels[i].UserID],
                [i \in 1 .. n |-> reactionModels[i].LivestreamID] >>
             \o fillLivestreamResponseBulkKeys(livestreamTagsT, livestreamModels)


\* ------------------------------------------------ reserveLivestreamHandler
\* the slots whose interval meets the window
SelectSlotsOverlapping(StartAt, EndAt) ==
    { s \in ReservationSlotRows : StartAt < s.EndAt /\ s.StartAt < EndAt }

\* WHERE start_at >= ? AND end_at <= ?  (the locking SELECT and the UPDATE)
SelectSlots(StartAt, EndAt) ==
    { s \in ReservationSlotRows : s.StartAt >= StartAt /\ s.EndAt <= EndAt }

\* The value of a slot row as a transaction holding its lock reads it: the
\* committed value less its own uncommitted decrement.
SlotSeenBy(r, id) ==
    reservationSlots[id] - (IF id \in txUpdated[r] THEN 1 ELSE 0)

\* The latest version of a slot row, uncommitted decrements included.
SlotLatest(id) ==
    reservationSlots[id] - Cardinality({ r \in Requests : id \in txUpdated[r] })

\* livestream_tags as transaction r sees it: committed rows and its own.
LivestreamTagsSeenBy(r) == livestreamTags \cup SeqRange(txLivestreamTags[r])

Open == { "term", "select", "check", "update", "insert", "tags", "fill", "commit" }

\* a transaction that outlives its context
ctxIgnored(r) == TRUE

\* The transaction is bound to the request's context (BeginTxx(ctx, nil))
\* and every statement is sent with it: once ctx is done no statement and no
\* commit of the transaction is carried out (Tx.Commit tests ctx.Done first).
ctxAlive(r) == ctxErr[r] = ""

NoRequest == [UserID |-> 0, StartAt |-> 0, EndAt |-> 0, Tags |-> <<>>]

\* `defer tx.Commit()` in place of `defer tx.Rollback()`: a failing request
\* leaves its writes behind
RollbackAsCommit(r) ==
    /\ lockHolder' = [id \in SlotIDs |-> IF lockHolder[id] = r THEN NoTx ELSE lockHolder[id]]
    /\ txUpdated' = [txUpdated EXCEPT ![r] = {}]
    /\ txLivestreams' = [txLivestreams EXCEPT ![r] = {}]
    /\ txLivestreamTags' = [txLivestreamTags EXCEPT ![r] = <<>>]
    /\ reservationSlots' = [id \in SlotIDs |-> SlotSeenBy(r, id)]
    /\ livestreams' = livestreams \cup txLivestreams[r]
    /\ livestreamTags' = livestreamTags \cup SeqRange(txLivestreamTags[r])

\* a rollback that drops the writes and leaves the row locks in place
RollbackKeepingLocks(r) ==
    /\ txUpdated' = [txUpdated EXCEPT ![r] = {}]
    /\ txLivestreams' = [txLivestreams EXCEPT ![r] = {}]
    /\ txLivestreamTags' = [txLivestreamTags EXCEPT ![r] = <<>>]
    /\ UNCHANGED <<lockHolder, reservationSlots, livestreams, livestreamTags>>

\* defer tx.Rollback(): the uncommitted writes are dropped and the row
\* locks released; the committed tables are untouched.
Rollback(r) ==
    /\ lockHolder' = [id \in SlotIDs |-> IF lockHolder[id] = r THEN NoTx ELSE lockHolder[id]]
    /\ txUpdated' = [txUpdated EXCEPT ![r] = {}]
    /\ txLivestreams' = [txLivestreams EXCEPT ![r] = {}]
    /\ txLivestreamTags' = [txLivestreamTags EXCEPT ![r] = <<>>]
    /\ UNCHANGED <<reservationSlots, livestreams, livestreamTags>>

\* return echo.NewHTTPError(...) with the deferred rollback
Return(r, result) ==
    /\ pc' = [pc EXCEPT ![r] = "done"]
    /\ outcome' = [outcome EXCEPT ![r] = result]
    /\ slots' = [slots EXCEPT ![r] = <<>>]
    /\ Rollback(r)

\* json decode, dbConn.BeginTxx.  Requests are numbered in arrival order.
Begin(r) ==
    /\ pc[r] = "idle"
    /\ \A q \in 1 .. (r - 1) : pc[q] # "idle"
    /\ \E w \in Windows, tl \in TagLists :
          req' = [req EXCEPT ![r] = [UserID |-> 1, StartAt |-> w[1], EndAt |-> w[2],
                                     Tags |-> tl]]
    /\ pc' = [pc EXCEPT ![r] = "term"]
    /\ UNCHANGED <<slots, livestreamID, outcome, storeVars, ctxErr, fillVars, readVars>>

\* the same with any int64 window, for the horizon test
BeginAnyWindow(r) ==
    /\ pc[r] = "idle"
    /\ \A q \in 1 .. (r - 1) : pc[q] # "idle"
    /\ \E s \in Int64, e \in Int64, tl \in { <<>>, <<1>> } :
          req' = [req EXCEPT ![r] = [UserID |-> 1, StartAt |-> s, EndAt |-> e,
                                     Tags |-> tl]]
    /\ pc' = [pc EXCEPT ![r] = "term"]
    /\ UNCHANGED <<slots, livestreamID, outcome, storeVars, ctxErr, fillVars, readVars>>

\* the horizon check
CheckTerm(r) ==
    /\ pc[r] = "term"
    /\ IF badReservationTimeRange(req[r].StartAt, req[r].EndAt)
       THEN /\ Return(r, "BadWindow")
            /\ UNCHANGED <<req, livestreamID>>
       ELSE /\ pc' = [pc EXCEPT ![r] = "select"]
            /\ UNCHANGED <<req, slots, livestreamID, outcome, reservationSlots, lockHolder,
                           txUpdated, livestreams, livestreamTags, txLivestreams,
                           txLivestreamTags>>
    /\ UNCHANGED <<seededSlots, autoIncLivestream, autoIncLivestreamTag, users, tags,
                   reactions, autoIncReaction, livecommentReports, ctxErr, fillVars,
                   readVars>>

\* the SELECT without FOR UPDATE: the rows are read and none is locked
SelectWithoutLock(r) ==
    /\ pc[r] = "select"
    /\ slots' = [slots EXCEPT ![r] =
                   SortByID({ [ID |-> s.ID, Slot |-> reservationSlots[s.ID],
                               StartAt |-> s.StartAt, EndAt |-> s.EndAt] :
                              s \in SelectSlots(req[r].StartAt, req[r].EndAt) })]
    /\ pc' = [pc EXCEPT ![r] = "check"]
    /\ UNCHANGED <<req, livestreamID, outcome, storeVars, ctxErr, fillVars, readVars>>

\* SELECT * FROM reservation_slots WHERE ... FOR UPDATE: the matching rows
\* are locked one after the other in primary-key order; the statement waits
\* while another transaction holds the next row.  A locking read returns
\* the latest committed row.
SelectForUpdate(r) ==
    /\ pc[r] = "select"
    /\ ctxAlive(r)
    /\ LET matching == SelectSlots(req[r].StartAt, req[r].EndAt)
           todo == { s \in matching : \A i \in 1 .. Len(slots[r]) : slots[r][i].ID # s.ID }
       IN  IF todo = {}
           THEN /\ pc' = [pc EXCEPT ![r] = "check"]
                /\ UNCHANGED <<slots, lockHolder>>
           ELSE LET s == CHOOSE x \in todo : \A y \in todo : x.ID <= y.ID
                IN  /\ lockHolder[s.ID] \in {NoTx, r}
                    /\ lockHolder' = [lockHolder EXCEPT ![s.ID] = r]
                    /\ slots' = [slots EXCEPT ![r] =
                                   Append(@, [ID |-> s.ID, Slot |-> reservationSlots[s.ID],
                                              StartAt |-> s.StartAt, EndAt |-> s.EndAt])]
                    /\ pc' = [pc EXCEPT ![r] = IF todo = {s} THEN "check" ELSE "select"]
    /\ UNCHANGED <<req, livestreamID, outcome, seededSlots, reservationSlots, txUpdated,
                   livestreams, livestreamTags, txLivestreams, txLivestreamTags,
                   autoIncLivestream, autoIncLivestreamTag, users, tags, reactions, autoIncReaction,
                   livecommentReports, ctxErr, fillVars, readVars>>

\* the loop over slots with `count < 0` in place of `count < 1`
CheckSlotsOffByOne(r) ==
    /\ pc[r] = "check"
    /\ IF \E i \in 1 .. Len(slots[r]) : SlotSeenBy(r, slots[r][i].ID) < 0
       THEN /\ Return(r, "SlotExhausted")
            /\ UNCHANGED <<req, livestreamID>>
       ELSE /\ pc' = [pc EXCEPT ![r] = "update"]
            /\ UNCHANGED <<req, slots, livestreamID, outcome, reservationSlots, lockHolder,
                           txUpdated, livestreams, livestreamTags, txLivestreams,
                           txLivestreamTags>>
    /\ UNCHANGED <<seededSlots, autoIncLivestream, autoIncLivestreamTag, users, tags,
                   reactions, autoIncReaction, livecommentReports, ctxErr, fillVars,
                   readVars>>

\* the loop leaving after its first iteration: only slots[0] is tested
CheckSlotsFirstOnly(r) ==
    /\ pc[r] = "check"
    /\ IF Len(slots[r]) > 0 /\ SlotSeenBy(r, slots[r][1].ID) < 1
       THEN /\ Return(r, "SlotExhausted")
            /\ UNCHANGED <<req, livestreamID>>
       ELSE /\ pc' = [pc EXCEPT ![r] = "update"]
            /\ UNCHANGED <<req, slots, livestreamID, outcome, reservationSlots, lockHolder,
                           txUpdated, livestreams, livestreamTags, txLivestreams,
                           txLivestreamTags>>
    /\ UNCHANGED <<seededSlots, autoIncLivestream, autoIncLivestreamTag, users, tags,
                   reactions, autoIncReaction, livecommentReports, ctxErr, fillVars,
                   readVars>>

\* for _, slot := range slots: re-read the slot count (a plain read inside
\* the transaction, after the lock) and reject when one is below 1.
CheckSlots(r) ==
    /\ pc[r] = "check"
    /\ ctxAlive(r)
    /\ IF \E i \in 1 .. Len(slots[r]) : SlotSeenBy(r, slots[r][i].ID) < 1
       THEN /\ Return(r, "SlotExhausted")
            /\ UNCHANGED <<req, livestreamID>>
       ELSE /\ pc' = [pc EXCEPT ![r] = "update"]
            /\ UNCHANGED <<req, slots, livestreamID, outcome, reservationSlots, lockHolder,
                           txUpdated, livestreams, livestreamTags, txLivestreams,
                           txLivestreamTags>>
    /\ UNCHANGED <<seededSlots, autoIncLivestream, autoIncLivestreamTag, users, tags,
                   reactions, autoIncReaction, livecommentReports, ctxErr, fillVars,
                   readVars>>

\* the UPDATE without its WHERE clause: every slot is decremented
UpdateSlotsAll(r) ==
    /\ pc[r] = "update"
    /\ ctxAlive(r)
    /\ \A id \in SlotIDs : lockHolder[id] \in {NoTx, r}
    /\ lockHolder' = [id \in SlotIDs |-> r]
    /\ txUpdated' = [txUpdated EXCEPT ![r] = SlotIDs]
    /\ pc' = [pc EXCEPT ![r] = "insert"]
    /\ UNCHANGED <<req, slots, livestreamID, outcome, seededSlots, reservationSlots,
                   livestreams, livestreamTags, txLivestreams, txLivestreamTags,
                   autoIncLivestream, autoIncLivestreamTag, users, tags, reactions, autoIncReaction,
                   livecommentReports, ctxErr, fillVars, readVars>>

\* UPDATE reservation_slots SET slot = slot - 1 WHERE start_at >= ? AND
\* end_at <= ?: an update takes the row lock of every row it changes (and
\* waits for it); the new values stay private until commit.
UpdateSlots(r) ==
    /\ pc[r] = "update"
    /\ ctxAlive(r)
    /\ LET target == { s.ID : s \in SelectSlots(req[r].StartAt, req[r].EndAt) }
       IN  /\ \A id \in target : lockHolder[id] \in {NoTx, r}
           /\ lockHolder' = [id \in SlotIDs |-> IF id \in target THEN r ELSE lockHolder[id]]
           /\ txUpdated' = [txUpdated EXCEPT ![r] = target]
    /\ pc' = [pc EXCEPT ![r] = "insert"]
    /\ UNCHANGED <<req, slots, livestreamID, outcome, seededSlots, reservationSlots,
                   livestreams, livestreamTags, txLivestreams, txLivestreamTags,
                   autoIncLivestream, autoIncLivestreamTag, users, tags, reactions, autoIncReaction,
                   livecommentReports, ctxErr, fillVars, readVars>>

\* INSERT INTO livestreams ...; rs.LastInsertId().  An AUTO_INCREMENT value
\* once handed out is not given back by a rollback.
InsertLivestream(r) ==
    /\ pc[r] = "insert"
    /\ ctxAlive(r)
    /\ autoIncLivestream' = autoIncLivestream + 1
    /\ livestreamID' = [livestreamID EXCEPT ![r] = autoIncLivestream + 1]
    /\ txLivestreams' = [txLivestreams EXCEPT ![r] =
                            { [ID |-> autoIncLivestream + 1, UserID |-> req[r].UserID,
                               StartAt |-> req[r].StartAt, EndAt |-> req[r].EndAt] }]
    /\ pc' = [pc EXCEPT ![r] = IF Len(req[r].Tags) = 0 THEN "fill" ELSE "tags"]
    /\ UNCHANGED <<req, slots, outcome, seededSlots, reservationSlots, lockHolder, txUpdated,
                   livestreams, livestreamTags, txLivestreamTags, autoIncLivestreamTag,
                   users, tags, reactions, autoIncReaction, livecommentReports, ctxErr, fillVars,
                   readVars>>

\* one iteration of `for _, tagID := range req.Tags`: INSERT INTO
\* livestream_tags (no check of the tag id)
InsertLivestreamTag(r) ==
    /\ pc[r] = "tags"
    /\ ctxAlive(r)
    /\ LET i == Len(txLivestreamTags[r]) + 1
       IN  /\ txLivestreamTags' = [txLivestreamTags EXCEPT ![r] =
                                     Append(@, [ID |-> autoIncLivestreamTag + 1,
                                                LivestreamID |-> livestreamID[r],
                                                TagID |-> req[r].Tags[i]])]
           /\ pc' = [pc EXCEPT ![r] = IF i = Len(req[r].Tags) THEN "fill" ELSE "tags"]
    /\ autoIncLivestreamTag' = autoIncLivestreamTag + 1
    /\ UNCHANGED <<req, slots, livestreamID, outcome, seededSlots, reservationSlots,
                   lockHolder, txUpdated, livestreams, livestreamTags, txLivestreams,
                   autoIncLivestream, users, tags, reactions, autoIncReaction, livecommentReports, ctxErr, fillVars,
                   readVars>>

\* the response composed without looking the tags up
FillResponseUnchecked(r) ==
    /\ pc[r] = "fill"
    /\ pc' = [pc EXCEPT ![r] = "commit"]
    /\ UNCHANGED <<req, slots, livestreamID, outcome, storeVars, ctxErr, fillVars, readVars>>

\* livestream, err := fillLivestreamResponse(ctx, tx, *livestreamModel)
FillResponse(r) ==
    /\ pc[r] = "fill"
    /\ ctxAlive(r)
    /\ LET livestreamModel == CHOOSE l \in txLivestreams[r] : TRUE
           livestream == fillLivestreamResponse(users, LivestreamTagsSeenBy(r), tags,
                                                livestreamModel)
       IN  IF livestream.err # ""
           THEN /\ Return(r, "FillFailed")
                /\ UNCHANGED <<req, livestreamID>>
           ELSE /\ pc' = [pc EXCEPT ![r] = "commit"]
                /\ UNCHANGED <<req, slots, livestreamID, outcome, reservationSlots,
                               lockHolder, txUpdated, livestreams, livestreamTags,
                               txLivestreams, txLivestreamTags>>
    /\ UNCHANGED <<seededSlots, autoIncLivestream, autoIncLivestreamTag, users, tags,
                   reactions, autoIncReaction, livecommentReports, ctxErr, fillVars,
                   readVars>>

\* tx.Commit(); return c.JSON(http.StatusCreated, livestream)
Commit(r) ==
    /\ pc[r] = "commit"
    /\ ctxAlive(r)
    /\ reservationSlots' = [id \in SlotIDs |-> SlotSeenBy(r, id)]
    /\ livestreams' = livestreams \cup txLivestreams[r]
    /\ livestreamTags' = livestreamTags \cup SeqRange(txLivestreamTags[r])
    /\ lockHolder' = [id \in SlotIDs |-> IF lockHolder[id] = r THEN NoTx ELSE lockHolder[id]]
    /\ txUpdated' = [txUpdated EXCEPT ![r] = {}]
    /\ txLivestreams' = [txLivestreams EXCEPT ![r] = {}]
    /\ txLivestreamTags' = [txLivestreamTags EXCEPT ![r] = <<>>]
    /\ pc' = [pc EXCEPT ![r] = "done"]
    /\ outcome' = [outcome EXCEPT ![r] = "Created"]
    /\ slots' = [slots EXCEPT ![r] = <<>>]
    /\ UNCHANGED <<req, livestreamID, seededSlots, autoIncLivestream, autoIncLivestreamTag,
                   users, tags, reactions, autoIncReaction, livecommentReports, ctxErr, fillVars,
                   readVars>>

\* any storage call of the open transaction (the commit included) returns
\* an error, or ctx is cancelled: the handler returns 500
StorageFail(r) ==
    /\ pc[r] \in Open
    /\ Return(r, "StorageError")
    /\ UNCHANGED <<req, livestreamID, seededSlots, autoIncLivestream, autoIncLivestreamTag,
                   users, tags, reactions, autoIncReaction, livecommentReports, ctxErr, fillVars,
                   readVars>>

\* the HTTP status of each return of reserveLivestreamHandler
statusOf(result) ==
    CASE result = "Created" -> 201
      [] result = "BadWindow" -> 400
      [] result = "SlotExhausted" -> 400
      [] result = "FillFailed" -> 500
      [] result = "StorageError" -> 500
      [] OTHER -> 0

\* the client goes away or its deadline expires while the transaction is open
Cancel(r) ==
    /\ pc[r] \in Open
    /\ ctxErr[r] = ""
    /\ ctxErr' = [ctxErr EXCEPT ![r] = "context canceled"]
    /\ UNCHANGED <<pc, req, slots, livestreamID, outcome, storeVars, fillVars, readVars>>

\* ctx done with the transaction open: database/sql rolls the transaction
\* back, the pending or next statement returns ctx.Err() and the handler
\* returns 500 (the deferred Rollback finds the transaction done).
Abort(r) ==
    /\ pc[r] \in Open \ {"term"}
    /\ ctxErr[r] # ""
    /\ Return(r, "StorageError")
    /\ UNCHANGED <<req, livestreamID, seededSlots, autoIncLivestream, autoIncLivestreamTag,
                   users, tags, reactions, autoIncReaction, livecommentReports, ctxErr, fillVars, readVars>>

\* ------------------------------------------------------------ specification
\* a request to a read handler: the session's user id, the path and query
\* parameters (a user name is stood for by the id of the user bearing it)
HTTPRequest(handler, userID, id, username, tag, limit) ==
    [handler |-> handler, userID |-> userID, livestreamID |-> id,
     username |-> username, tag |-> tag, limit |-> limit]

\* c.JSON(status, body) / echo.NewHTTPError(status, ...), and the number of
\* statements the handler and its composers sent
Response(status, body, queries) ==
    [status |-> status, body |-> body, queries |-> queries]

\* no read handler has served a request yet
NoLimit == -1
NoHTTPRequest == HTTPRequest("", 0, 0, 0, "", NoLimit)
NoHTTPResponse == Response(0, <<>>, 0)

NoFillCalls ==
    /\ lsModels = <<>>
    /\ lsBulk = Ok(NilMap)
    /\ lsSingle = <<>>
    /\ rxModels = <<>>
    /\ rxBulk = Ok(<<>>)
    /\ rxSingle = <<>>
    /\ lsQueries = 0
    /\ rxQueries = 0
    /\ fillCall = ""
    /\ inKeys = <<>>

NoRequests ==
    /\ pc = [r \in Requests |-> "idle"]
    /\ req = [r \in Requests |-> NoRequest]
    /\ slots = [r \in Requests |-> <<>>]
    /\ livestreamID = [r \in Requests |-> 0]
    /\ outcome = [r \in Requests |-> ""]
    /\ ctxErr = [r \in Requests |-> ""]
    /\ lockHolder = [id \in SlotIDs |-> NoTx]
    /\ txUpdated = [r \in Requests |-> {}]
    /\ txLivestreams = [r \in Requests |-> {}]
    /\ txLivestreamTags = [r \in Requests |-> <<>>]

\* The seeded store: every slot with some capacity 0..MaxCapacity, no
\* reservation yet, one user and one tag.
Init ==
    /\ NoRequests
    /\ NoFillCalls
    /\ seededSlots \in [SlotIDs -> 0 .. MaxCapacity]
    /\ reservationSlots = seededSlots
    /\ livestreams = {}
    /\ livestreamTags = {}
    /\ autoIncLivestream = 0
    /\ autoIncLivestreamTag = 0
    /\ users = SeedUsers
    /\ tags = SeedTags
    /\ reactions = {}
    /\ autoIncReaction = 0
    /\ livecommentReports = {}
    /\ httpReq = NoHTTPRequest
    /\ httpRes = NoHTTPResponse

Step(r) ==
    \/ CheckTerm(r)
    \/ SelectForUpdate(r)
    \/ CheckSlots(r)
    \/ UpdateSlots(r)
    \/ InsertLivestream(r)
    \/ InsertLivestreamTag(r)
    \/ FillResponse(r)
    \/ Commit(r)
    \/ StorageFail(r)

Next == \E r \in Requests : Begin(r) \/ Step(r)

Spec == Init /\ [][Next]_vars


\* The horizon test over every int64 window: one request after the other.
NextHorizon == BeginAnyWindow(1) \/ Step(1)

SpecHorizon == Init /\ [][NextHorizon]_vars

\* Cancellation: requests for one slot, for both and outside the horizon,
\* any of which may be cancelled at any point of its transaction.
CancelWindows == { <<1, 3>>, <<1, 5>>, <<5, 6>> }

BeginCancellable(r) ==
    /\ pc[r] = "idle"
    /\ \A q \in 1 .. (r - 1) : pc[q] # "idle"
    /\ \E w \in CancelWindows, tl \in { <<>>, <<1>> } :
          req' = [req EXCEPT ![r] = [UserID |-> 1, StartAt |-> w[1], EndAt |-> w[2],
                                     Tags |-> tl]]
    /\ pc' = [pc EXCEPT ![r] = "term"]
    /\ UNCHANGED <<slots, livestreamID, outcome, storeVars, ctxErr, fillVars, readVars>>

NextCancel == \E r \in Requests : BeginCancellable(r) \/ Step(r) \/ Cancel(r) \/ Abort(r)

\* The handler goroutine keeps running and the store answers or gives up
\* waiting (lock wait timeout): a cancelled request reaches its return.
SpecCancel ==
    /\ Init
    /\ [][NextCancel]_vars
    /\ \A r \in Requests : WF_vars(CheckTerm(r)) /\ WF_vars(Abort(r))

\* Progress: requests for one slot, the other slot, both, none (a partial
\* overlap, start after end, outside the horizon), with and without a
\* missing tag, on a store that answers every statement.
ProgressWindows == { <<1, 3>>, <<3, 5>>, <<1, 5>>, <<2, 4>>, <<4, 2>>, <<5, 6>> }

BeginProgress(r) ==
    /\ pc[r] = "idle"
    /\ \A q \in 1 .. (r - 1) : pc[q] # "idle"
    /\ \E w \in ProgressWindows, tl \in { <<1>>, <<1, 2>> } :
          req' = [req EXCEPT ![r] = [UserID |-> 1, StartAt |-> w[1], EndAt |-> w[2],
                                     Tags |-> tl]]
    /\ pc' = [pc EXCEPT ![r] = "term"]
    /\ UNCHANGED <<slots, livestreamID, outcome, storeVars, ctxErr, fillVars, readVars>>

\* the next statement of the handler, carried out by the store
StepNoFailure(r) ==
    \/ CheckTerm(r)
    \/ SelectForUpdate(r)
    \/ CheckSlots(r)
    \/ UpdateSlots(r)
    \/ InsertLivestream(r)
    \/ InsertLivestreamTag(r)
    \/ FillResponse(r)
    \/ Commit(r)

NextProgress == \E r \in Requests : BeginProgress(r) \/ StepNoFailure(r)

\* Every handler goroutine is scheduled again and again; a statement
\* waiting for a row lock is carried out once the lock stays free.
SpecProgress ==
    /\ Init
    /\ [][NextProgress]_vars
    /\ \A r \in Requests : WF_vars(StepNoFailure(r))

\* --------------------------------------------- the composers on any tables
\* Rows the tables may hold: livestreams and reactions may name user 2,
\* and join rows tag 2, neither of which exists.
LivestreamRowChoices(id) ==
    { [ID |-> id, UserID |-> u, StartAt |-> 1, EndAt |-> 3] : u \in UserIDs }
LivestreamTagRowChoices(id) ==
    { [ID |-> id, LivestreamID |-> l, TagID |-> tg] : l \in 1 .. MaxRows, tg \in TagIDs }
ReactionRowChoices(id) ==
    { [ID |-> id, UserID |-> u, LivestreamID |-> l, CreatedAt |-> id] :
        u \in UserIDs, l \in 1 .. MaxRows }

\* every table with at most one row per id 1..MaxRows
TablesOf(rows) ==
    { t \in SUBSET rows : \A x, y \in t : x.ID = y.ID => x = y }

\* the lists of at most MaxRows rows of a table
ListsOf(table) ==
    UNION { [1 .. n -> table] : n \in 0 .. MaxRows }

InitFill ==
    /\ NoRequests
    /\ NoFillCalls
    /\ seededSlots = [id \in SlotIDs |-> MaxCapacity]
    /\ reservationSlots = seededSlots
    /\ livestreams \in TablesOf(UNION { LivestreamRowChoices(id) : id \in 1 .. MaxRows })
    /\ livestreamTags \in TablesOf(UNION { LivestreamTagRowChoices(id) : id \in 1 .. MaxRows })
    /\ reactions \in TablesOf(UNION { ReactionRowChoices(id) : id \in 1 .. MaxRows })
    /\ autoIncReaction = MaxRows
    /\ autoIncLivestream = MaxRows
    /\ autoIncLivestreamTag = MaxRows
    /\ users = SeedUsers
    /\ tags = SeedTags
    /\ livecommentReports = {}
    /\ httpReq = NoHTTPRequest
    /\ httpRes = NoHTTPResponse

\* a listing path hands rows of livestreams to the bulk composer; the same
\* rows go one by one through the single-row composer.  Only the results of
\* the latest call are kept.
FillLivestreams ==
    /\ \E models \in ListsOf(livestreams) :
          /\ lsModels' = models
          /\ lsBulk' = fillLivestreamResponseBulk(users, livestreamTags, tags, models)
          /\ lsSingle' = [i \in 1 .. Len(models) |->
                            fillLivestreamResponse(users, livestreamTags, tags, models[i])]
          /\ lsQueries' = fillLivestreamResponseBulkQueries(livestreamTags, models)
    /\ rxModels' = <<>>
    /\ rxBulk' = Ok(<<>>)
    /\ rxSingle' = <<>>
    /\ rxQueries' = 0
    /\ fillCall' = "livestream"
    /\ inKeys' = fillLivestreamResponseBulkKeys(livestreamTags, lsModels')
    /\ UNCHANGED <<handlerVars, storeVars, readVars>>

\* getReactionsHandler hands rows of reactions to fillReactionResponseBulk
FillReactions ==
    /\ \E models \in ListsOf(reactions) :
          /\ rxModels' = models
          /\ rxBulk' = fillReactionResponseBulk(users, livestreams, livestreamTags, tags,
                                                models)
          /\ rxSingle' = [i \in 1 .. Len(models) |->
                            fillReactionResponse(users, livestreams, livestreamTags, tags,
                                                 models[i])]
          /\ rxQueries' = fillReactionResponseBulkQueries(livestreams, livestreamTags, models)
    /\ lsModels' = <<>>
    /\ lsBulk' = Ok(NilMap)
    /\ lsSingle' = <<>>
    /\ lsQueries' = 0
    /\ fillCall' = "reaction"
    /\ inKeys' = fillReactionResponseBulkKeys(livestreams, livestreamTags, rxModels')
    /\ UNCHANGED <<handlerVars, storeVars, readVars>>

NextFill == FillLivestreams \/ FillReactions

SpecFill == InitFill /\ [][NextFill]_vars

\* ------------------------------------------------------- the read handlers
\* ORDER BY key DESC
RECURSIVE OrderByDesc(_, _)
OrderByDesc(rows, key) ==
    IF rows = {} THEN <<>>
    ELSE LET first == CHOOSE x \in rows : \A y \in rows : x[key] >= y[key]
         IN  <<first>> \o OrderByDesc(rows \ {first}, key)

\* LIMIT n, when the limit query parameter is given
Limit(rows, limit) ==
    IF limit = NoLimit \/ limit >= Len(rows) THEN rows ELSE SubSeq(rows, 1, limit)

RECURSIVE Sum(_)
Sum(ns) == IF ns = <<>> THEN 0 ELSE Head(ns) + Sum(Tail(ns))

\* the statements fillLivestreamResponse sends: users, livestream_tags and
\* one GetContext on tags per join row, up to the first that finds no row
fillLivestreamResponseQueries(usersT, livestreamTagsT, tagsT, livestreamModel) ==
    LET livestreamTagModels ==
            SortByID({ lt \in livestreamTagsT : lt.LivestreamID = livestreamModel.ID })
        missing == { i \in 1 .. Len(livestreamTagModels) :
                       \A tg \in tagsT : tg.ID # livestreamTagModels[i].TagID }
    IN  IF \A u \in usersT : u.ID # livestreamModel.UserID THEN 1
        ELSE IF missing # {} THEN 2 + (CHOOSE i \in missing : \A j \in missing : i <= j)
        ELSE 2 + Len(livestreamTagModels)

\* for i := range livestreamModels { fillLivestreamResponse(...) }: the
\* loop of getMyLivestreamsHandler and getUserLivestreamsHandler, after
\* `listingQueries` statements of the handler itself
fillEachLivestream(usersT, livestreamTagsT, tagsT, livestreamModels, listingQueries) ==
    LET n == Len(livestreamModels)
        filled == [i \in 1 .. n |->
                     fillLivestreamResponse(usersT, livestreamTagsT, tagsT, livestreamModels[i])]
        failing == { i \in 1 .. n : filled[i].err # "" }
        last == IF failing = {} THEN n ELSE CHOOSE i \in failing : \A j \in failing : i <= j
        queries == listingQueries
                   + Sum([i \in 1 .. last |->
                            fillLivestreamResponseQueries(usersT, livestreamTagsT, tagsT,
                                                          livestreamModels[i])])
    IN  IF failing # {} THEN Response(500, <<>>, queries)
        ELSE Response(200, [i \in 1 .. n |-> filled[i].val], queries)

\* the result listed in the order of the map's keys
reprojectByMapKeys(livestreamModels, livestreamMap) ==
    LET ids == SortByID({ [ID |-> id] : id \in DOMAIN livestreamMap })
    IN  [i \in 1 .. Len(ids) |-> livestreamMap[ids[i].ID]]

\* for _, livestreamModel := range livestreamModels: the entity of every
\* fetched row, in the order of the rows
reproject(livestreamModels, livestreamMap) ==
    [i \in 1 .. Len(livestreamModels) |-> livestreamMap[livestreamModels[i].ID]]

\* the rows searchLivestreamsHandler fetches: by tag, the join rows of the
\* tags of that name by livestream id descending, each followed by a
\* GetContext of its livestream; otherwise all livestreams by id descending
keyTaggedLivestreams(livestreamTagsT, tagsT, keyTagName) ==
    OrderByDesc({ lt \in livestreamTagsT :
                    \E tg \in tagsT : tg.Name = keyTagName /\ tg.ID = lt.TagID },
                "LivestreamID")

searchLivestreamModels(livestreamsT, livestreamTagsT, tagsT, keyTagName, limit) ==
    LET keyTagged == keyTaggedLivestreams(livestreamTagsT, tagsT, keyTagName)
    IN  IF keyTagName # ""
        THEN [i \in 1 .. Len(keyTagged) |->
                CHOOSE l \in livestreamsT : l.ID = keyTagged[i].LivestreamID]
        ELSE Limit(OrderByDesc(livestreamsT, "ID"), limit)

searchLivestreamsHandler(usersT, livestreamsT, livestreamTagsT, tagsT, keyTagName, limit) ==
    LET tagIDList == SortByID({ tg \in tagsT : tg.Name = keyTagName })
        keyTagged == keyTaggedLivestreams(livestreamTagsT, tagsT, keyTagName)
        notFound == { i \in 1 .. Len(keyTagged) :
                        \A l \in livestreamsT : l.ID # keyTagged[i].LivestreamID }
        livestreamModels ==
            searchLivestreamModels(livestreamsT, livestreamTagsT, tagsT, keyTagName, limit)
        listingQueries == IF keyTagName # "" THEN 2 + Len(keyTagged) ELSE 1
        livestreamMap ==
            fillLivestreamResponseBulk(usersT, livestreamTagsT, tagsT, livestreamModels)
        queries == listingQueries
                   + fillLivestreamResponseBulkQueries(livestreamTagsT, livestreamModels)
    IN  IF keyTagName # "" /\ ~ sqlxIn(tagIDList) THEN Response(500, <<>>, 1)
        ELSE IF keyTagName # "" /\ notFound # {}
        THEN Response(500, <<>>, 2 + (CHOOSE i \in notFound : \A j \in notFound : i <= j))
        ELSE IF livestreamMap.err # "" THEN Response(500, <<>>, queries)
        ELSE IF \E i \in 1 .. Len(livestreamModels) :
                    livestreamModels[i].ID \notin DOMAIN livestreamMap.val
        THEN Response(500, <<>>, queries)
        ELSE Response(200, reproject(livestreamModels, livestreamMap.val), queries)

getMyLivestreamsHandler(usersT, livestreamsT, livestreamTagsT, tagsT, userID) ==
    fillEachLivestream(usersT, livestreamTagsT, tagsT,
                       SortByID({ l \in livestreamsT : l.UserID = userID }), 1)

getUserLivestreamsHandler(usersT, livestreamsT, livestreamTagsT, tagsT, username) ==
    IF \A u \in usersT : u.ID # username THEN Response(404, <<>>, 1)
    ELSE fillEachLivestream(usersT, livestreamTagsT, tagsT,
                            SortByID({ l \in livestreamsT : l.UserID = username }), 2)

getReactionsHandler(usersT, livestreamsT, livestreamTagsT, tagsT, reactionsT, id, limit) ==
    LET reactionModels ==
            Limit(OrderByDesc({ rx \in reactionsT : rx.LivestreamID = id },
                              "CreatedAt"), limit)
        filled == fillReactionResponseBulk(usersT, livestreamsT, livestreamTagsT, tagsT,
                                           reactionModels)
        queries == 1 + fillReactionResponseBulkQueries(livestreamsT, livestreamTagsT,
                                                        reactionModels)
    IN  IF filled.err # "" THEN Response(500, <<>>, queries)
        ELSE Response(200, filled.val, queries)

\* fillLivecommentReportResponse: a report row becomes its entity
fillLivecommentReportResponse(reportModel) ==
    [ID |-> reportModel.ID, LivestreamID |-> reportModel.LivestreamID]

\* every caller taken for the streamer
otherStreamerNever(livestreamModel, userID) == FALSE

\* if livestreamModel.UserID != userID
otherStreamer(livestreamModel, userID) == livestreamModel.UserID # userID

getLivecommentReportsHandler(livestreamsT, reportsT, userID, id) ==
    LET found == { l \in livestreamsT : l.ID = id }
        livestreamModel == CHOOSE l \in found : TRUE
        reportModels == SortByID({ rp \in reportsT : rp.LivestreamID = id })
    IN  IF found = {} THEN Response(500, <<>>, 1)
        ELSE IF otherStreamer(livestreamModel, userID) THEN Response(403, <<>>, 1)
        ELSE Response(200,
                      [i \in 1 .. Len(reportModels) |->
                          fillLivecommentReportResponse(reportModels[i])],
                      2)

\* the tag names and limits of the requests
TagNames == { "", "t1", "t2" }
Limits == { NoLimit, 1 }

LivecommentReportRowChoices(id) ==
    { [ID |-> id, LivestreamID |-> l] : l \in 1 .. MaxRows }

\* Any tables as in InitFill, with reports or reactions (no handler reads
\* both); the read handlers leave the tables as they are.
InitRead ==
    /\ NoRequests
    /\ NoFillCalls
    /\ seededSlots = [id \in SlotIDs |-> MaxCapacity]
    /\ reservationSlots = seededSlots
    /\ livestreams \in TablesOf(UNION { LivestreamRowChoices(id) : id \in 1 .. MaxRows })
    /\ livestreamTags \in TablesOf(UNION { LivestreamTagRowChoices(id) : id \in 1 .. MaxRows })
    /\ reactions \in TablesOf(UNION { ReactionRowChoices(id) : id \in 1 .. MaxRows })
    /\ autoIncReaction = MaxRows
    /\ livecommentReports
          \in TablesOf(UNION { LivecommentReportRowChoices(id) : id \in 1 .. MaxRows })
    /\ reactions = {} \/ livecommentReports = {}
    /\ autoIncLivestream = MaxRows
    /\ autoIncLivestreamTag = MaxRows
    /\ users = SeedUsers
    /\ tags = SeedTags
    /\ httpReq = NoHTTPRequest
    /\ httpRes = NoHTTPResponse

SearchLivestreams ==
    /\ \E keyTagName \in TagNames, limit \in Limits :
          /\ httpReq' = HTTPRequest("searchLivestreams", 0, 0, 0, keyTagName, limit)
          /\ httpRes' = searchLivestreamsHandler(users, livestreams, livestreamTags, tags,
                                                 keyTagName, limit)
    /\ UNCHANGED <<handlerVars, storeVars, fillVars>>

GetMyLivestreams ==
    /\ \E userID \in UserIDs :
          /\ httpReq' = HTTPRequest("getMyLivestreams", userID, 0, 0, "", NoLimit)
          /\ httpRes' = getMyLivestreamsHandler(users, livestreams, livestreamTags, tags,
                                                userID)
    /\ UNCHANGED <<handlerVars, storeVars, fillVars>>

GetUserLivestreams ==
    /\ \E username \in UserIDs :
          /\ httpReq' = HTTPRequest("getUserLivestreams", 1, 0, username, "", NoLimit)
          /\ httpRes' = getUserLivestreamsHandler(users, livestreams, livestreamTags, tags,
                                                  username)
    /\ UNCHANGED <<handlerVars, storeVars, fillVars>>

GetReactions ==
    /\ \E id \in 1 .. MaxRows, limit \in Limits :
          /\ httpReq' = HTTPRequest("getReactions", 1, id, 0, "", limit)
          /\ httpRes' = getReactionsHandler(users, livestreams, livestreamTags, tags,
                                            reactions, id, limit)
    /\ UNCHANGED <<handlerVars, storeVars, fillVars>>

GetLivecommentReports ==
    /\ \E userID \in UserIDs, id \in 1 .. MaxRows :
          /\ httpReq' = HTTPRequest("getLivecommentReports", userID, id, 0, "",
                                    NoLimit)
          /\ httpRes' = getLivecommentReportsHandler(livestreams, livecommentReports,
                                                     userID, id)
    /\ UNCHANGED <<handlerVars, storeVars, fillVars>>

NextRead ==
    \/ SearchLivestreams
    \/ GetMyLivestreams
    \/ GetUserLivestreams
    \/ GetReactions
    \/ GetLivecommentReports

SpecRead == InitRead /\ [][NextRead]_vars

\* ------------------------------------------------------- the write paths
\* postReactionHandler: INSERT INTO reactions, fillReactionResponse inside
\* the transaction, tx.Commit().  The transaction takes no row lock and its
\* reads come from one snapshot, so the request is one step at the moment
\* of that snapshot; the AUTO_INCREMENT value of a rolled-back insert is
\* not given back.  `fails` is the commit returning an error.  The
\* statements of this handler are not counted.
PostReaction ==
    /\ autoIncReaction < MaxReactions
    /\ \E userID \in UserIDs, id \in 1 .. NumRequests, fails \in BOOLEAN :
          LET reactionModel == [ID |-> autoIncReaction + 1, UserID |-> userID,
                                LivestreamID |-> id, CreatedAt |-> autoIncReaction + 1]
              reaction == fillReactionResponse(users, livestreams, livestreamTags, tags,
                                               reactionModel)
          IN  /\ httpReq' = HTTPRequest("postReaction", userID, id, 0, "", NoLimit)
              /\ IF reaction.err # "" \/ fails
                 THEN /\ reactions' = reactions
                      /\ httpRes' = Response(500, <<>>, 0)
                 ELSE /\ reactions' = reactions \cup { reactionModel }
                      /\ httpRes' = Response(201, <<reaction.val>>, 0)
    /\ autoIncReaction' = autoIncReaction + 1
    /\ UNCHANGED <<handlerVars, seededSlots, reservationSlots, lockHolder, txUpdated,
                   livestreams, livestreamTags, txLivestreams, txLivestreamTags,
                   autoIncLivestream, autoIncLivestreamTag, users, tags,
                   livecommentReports, fillVars>>

\* Reservations by a session user who is, or is not, in users, with no
\* tag, an existing tag, and a tag that does not exist.
WriteWindows == { <<1, 3>> }
WriteTagLists == { <<>>, <<1>>, <<1, 2>> }

BeginWrite(r) ==
    /\ pc[r] = "idle"
    /\ \A q \in 1 .. (r - 1) : pc[q] # "idle"
    /\ \E userID \in UserIDs, w \in WriteWindows, tl \in WriteTagLists :
          req' = [req EXCEPT ![r] = [UserID |-> userID, StartAt |-> w[1], EndAt |-> w[2],
                                     Tags |-> tl]]
    /\ pc' = [pc EXCEPT ![r] = "term"]
    /\ UNCHANGED <<slots, livestreamID, outcome, storeVars, ctxErr, fillVars, readVars>>

NextWrite == (\E r \in Requests : BeginWrite(r) \/ Step(r)) \/ PostReaction

SpecWrite == Init /\ [][NextWrite]_vars



\* ------------------------------------------------------------------ claims
Created(r) == pc[r] = "done" /\ outcome[r] = "Created"
Failed(r) == pc[r] = "done" /\ outcome[r] # "Created"

\* the slots the request's statements select, and the slots its window
\* overlaps as intervals [start_at, end_at)
Selected(r) == { s.ID : s \in SelectSlots(req[r].StartAt, req[r].EndAt) }
Overlapped(r) ==
    { s.ID : s \in { x \in ReservationSlotRows :
                       req[r].StartAt < x.EndAt /\ x.StartAt < req[r].EndAt } }

TagExists(id) == \E tg \in tags : tg.ID = id
NamesMissingTag(r) == \E i \in 1 .. Len(req[r].Tags) : ~ TagExists(req[r].Tags[i])

\* C1: for every slot, the number of committed reservations whose window
\* overlaps the slot is at most the slot's seeded capacity.
C1_NoOverbooking ==
    \A id \in SlotIDs :
        Cardinality({ r \in Requests : Created(r) /\ id \in Overlapped(r) }) <= seededSlots[id]

\* C2: the capacity of every slot, committed or as last written, is never
\* negative, and a step that decrements a slot is the UPDATE (or the commit)
\* of the transaction that already holds the slot's row lock.
C2_CapacityUnderLock ==
    /\ [](\A id \in SlotIDs : reservationSlots[id] >= 0 /\ SlotLatest(id) >= 0)
    /\ [][\A id \in SlotIDs :
            /\ SlotLatest(id)' < SlotLatest(id) =>
                  \E r \in Requests : /\ pc[r] = "update"
                                      /\ lockHolder[id] = r
                                      /\ lockHolder'[id] = r
                                      /\ SlotLatest(id)' = SlotLatest(id) - 1
            /\ reservationSlots'[id] < reservationSlots[id] =>
                  \E r \in Requests : /\ pc[r] = "commit"
                                      /\ lockHolder[id] = r
                                      /\ reservationSlots'[id] = reservationSlots[id] - 1]_vars

C2_Witness ==
    \E r \in Requests, id \in SlotIDs :
        /\ lockHolder[id] = r
        /\ id \in txUpdated[r]
        /\ seededSlots[id] = 1
        /\ SlotLatest(id) = 0

\* C3: two requests for the same window that holds a slot of capacity 1,
\* valid otherwise and not hit by a storage failure, with no third request:
\* one is created, the other is rejected as SlotExhausted, and the slot is
\* left at 0.
C3_ExactlyOneWins ==
    \A a, b \in Requests :
        ( /\ a < b
          /\ pc[a] = "done" /\ pc[b] = "done"
          /\ \A c \in Requests \ {a, b} : pc[c] = "idle"
          /\ req[a].StartAt = req[b].StartAt /\ req[a].EndAt = req[b].EndAt
          /\ ~ NamesMissingTag(a) /\ ~ NamesMissingTag(b)
          /\ outcome[a] # "StorageError" /\ outcome[b] # "StorageError"
          /\ \E id \in Selected(a) : seededSlots[id] = 1
          /\ \A id \in Selected(a) : seededSlots[id] >= 1 )
        => /\ {outcome[a], outcome[b]} = {"Created", "SlotExhausted"}
           /\ \A id \in Selected(a) : seededSlots[id] = 1 => reservationSlots[id] = 0

\* the request that arrived second took the slot while the first was open
C3_Witness ==
    /\ pc[1] = "done" /\ outcome[1] = "SlotExhausted"
    /\ pc[2] = "done" /\ outcome[2] = "Created"
    /\ req[1].StartAt = req[2].StartAt /\ req[1].EndAt = req[2].EndAt
    /\ Selected(1) = SlotIDs
    /\ seededSlots[1] = 1
    /\ reservationSlots[1] = 0

\* C4: a request that reaches the capacity check while one of its selected
\* slots is below 1 leaves the check rejected, with no write of its own and
\* the committed tables as they were; a request rejected as SlotExhausted
\* never inserted a row.
C4_AllOrNothing ==
    /\ [](\A r \in Requests :
            /\ (pc[r] = "done" /\ outcome[r] = "SlotExhausted") =>
                  /\ livestreamID[r] = 0
                  /\ txUpdated[r] = {} /\ txLivestreams[r] = {} /\ txLivestreamTags[r] = <<>>
            /\ pc[r] \in {"update", "insert", "tags", "fill", "commit"} =>
                  \A id \in Selected(r) : reservationSlots[id] >= 1)
    /\ [][\A r \in Requests :
            ( /\ pc[r] = "check"
              /\ pc'[r] # "check"
              /\ \E id \in Selected(r) : reservationSlots[id] < 1 )
            => /\ pc'[r] = "done"
               /\ outcome'[r] \in {"SlotExhausted", "StorageError"}
               /\ reservationSlots' = reservationSlots
               /\ livestreams' = livestreams
               /\ livestreamTags' = livestreamTags
               /\ txUpdated'[r] = {} /\ txLivestreams'[r] = {}
               /\ \A id \in SlotIDs : SlotLatest(id)' = SlotLatest(id)]_vars

\* capacities [1, 0]: the two-slot window is rejected, the first slot keeps 1
C4_Witness ==
    \E r \in Requests :
        /\ pc[r] = "done" /\ outcome[r] = "SlotExhausted"
        /\ Selected(r) = SlotIDs
        /\ seededSlots = [id \in SlotIDs |-> IF id = 1 THEN 1 ELSE 0]
        /\ reservationSlots = seededSlots
        /\ livestreams = {}

\* C5: every committed reservation lies inside the horizon.
C5_ReservationsInsideHorizon ==
    \A l \in livestreams : TermStartAt <= l.StartAt /\ l.EndAt <= TermEndAt

\* C6: a request is rejected as BadWindow exactly when its start is at or
\* after the horizon end or its end is at or before the horizon start.
C6_HorizonCheck ==
    \A r \in Requests :
        LET outside == req[r].StartAt >= TermEndAt \/ req[r].EndAt <= TermStartAt
        IN  /\ (pc[r] = "done" /\ outcome[r] = "BadWindow") => outside
            /\ (pc[r] \in Open \ {"term"}
                \/ (pc[r] = "done" /\ outcome[r] \in {"Created", "SlotExhausted", "FillFailed"}))
               => ~ outside


\* C7: the committed tables change only in the commit step of a request
\* that is thereby created; a failed request has no livestreams row, no
\* livestream_tags row and no lock, and every slot stands at its seeded
\* capacity less the created requests that selected it.
C7_AtomicRollback ==
    /\ [](/\ \A r \in Requests :
                Failed(r) =>
                   /\ \A l \in livestreams : l.ID # livestreamID[r]
                   /\ \A lt \in livestreamTags : lt.LivestreamID # livestreamID[r]
                   /\ \A id \in SlotIDs : lockHolder[id] # r
                   /\ txUpdated[r] = {} /\ txLivestreams[r] = {} /\ txLivestreamTags[r] = <<>>
          /\ \A id \in SlotIDs :
                reservationSlots[id] =
                   seededSlots[id]
                   - Cardinality({ r \in Requests : Created(r) /\ id \in Selected(r) }))
    /\ [][<<reservationSlots, livestreams, livestreamTags>>'
             # <<reservationSlots, livestreams, livestreamTags>>
          => \E r \in Requests : pc[r] = "commit" /\ Created(r)']_vars

\* a request that had decremented a slot and inserted its rows, then failed
C7_Witness ==
    \E r \in Requests :
        /\ Failed(r)
        /\ livestreamID[r] > 0
        /\ Len(req[r].Tags) = 2
        /\ outcome[r] = "StorageError"
        /\ Selected(r) # {}
        /\ \A id \in Selected(r) : reservationSlots[id] = seededSlots[id]

\* C8: a request naming a tag id that does not exist never reaches the
\* commit; once it has returned it has failed, no row carries its livestream
\* id, and no slot is below its seeded capacity on its account.
C8_MissingTagNeverCommits ==
    \A r \in Requests :
        NamesMissingTag(r) =>
            /\ pc[r] # "commit"
            /\ outcome[r] # "Created"
            /\ pc[r] = "done" =>
                  /\ outcome[r] \in {"BadWindow", "SlotExhausted", "FillFailed", "StorageError"}
                  /\ ~ \E l \in livestreams : l.ID = livestreamID[r]
                  /\ ~ \E lt \in livestreamTags : lt.LivestreamID = livestreamID[r]
                  /\ \A id \in Selected(r) :
                        reservationSlots[id] =
                           seededSlots[id]
                           - Cardinality({ q \in Requests \ {r} :
                                             Created(q) /\ id \in Selected(q) })

\* the missing id first in one request and last in the other
C8_Witness ==
    /\ pc[1] = "done" /\ outcome[1] = "FillFailed" /\ req[1].Tags = <<2, 1>>
    /\ pc[2] = "done" /\ outcome[2] = "FillFailed" /\ req[2].Tags = <<1, 2>>
    /\ livestreamID[1] > 0 /\ livestreamID[2] > 0
    /\ Selected(1) # {} /\ Selected(2) # {}

\* C9: on a non-empty input whose owners and tags all exist, the bulk
\* composer returns no error, and every input row without join rows has a
\* map entry with an empty tag list.
C9_EmptyTagIntegrity ==
    LET joinRows(m) == { lt \in livestreamTags : lt.LivestreamID = m.ID }
        sound(m) == /\ \E u \in users : u.ID = m.UserID
                    /\ \A lt \in joinRows(m) : TagExists(lt.TagID)
    IN  (Len(lsModels) > 0 /\ \A i \in 1 .. Len(lsModels) : sound(lsModels[i]))
        => /\ lsBulk.err = ""
           /\ \A i \in 1 .. Len(lsModels) :
                 joinRows(lsModels[i]) = {} =>
                    /\ lsModels[i].ID \in DOMAIN lsBulk.val
                    /\ lsBulk.val[lsModels[i].ID].Tags = <<>>

\* C10: the bulk composers succeed exactly when the single-row composers
\* succeed on every row, and then return the same entity for every row.
C10_BulkSingleEquivalence ==
    /\ lsBulk.err = "" <=> \A i \in 1 .. Len(lsModels) : lsSingle[i].err = ""
    /\ lsBulk.err = "" =>
          \A i \in 1 .. Len(lsModels) : lsBulk.val[lsModels[i].ID] = lsSingle[i].val
    /\ rxBulk.err = "" <=> \A i \in 1 .. Len(rxModels) : rxSingle[i].err = ""
    /\ rxBulk.err = "" =>
          \A i \in 1 .. Len(rxModels) : rxBulk.val[i] = rxSingle[i].val

\* C11 as stated: on every non-empty input the bulk composers issue the
\* same number of queries (one IN query per foreign entity type).
C11_SameQueryCount ==
    /\ (fillCall = "livestream" /\ Len(lsModels) > 0) => lsQueries = LivestreamBulkQueries
    /\ (fillCall = "reaction" /\ Len(rxModels) > 0) => rxQueries = ReactionBulkQueries

\* C11 (amended): on every non-empty input the bulk composers issue at most
\* LivestreamBulkQueries / ReactionBulkQueries queries whatever the number of
\* rows, owners and tags, and exactly that many when the call succeeds.
C11_BoundedQueryCount ==
    /\ (fillCall = "livestream" /\ Len(lsModels) > 0) =>
          /\ lsQueries <= LivestreamBulkQueries
          /\ lsBulk.err = "" => lsQueries = LivestreamBulkQueries
    /\ (fillCall = "reaction" /\ Len(rxModels) > 0) =>
          /\ rxQueries <= ReactionBulkQueries
          /\ rxBulk.err = "" => rxQueries = ReactionBulkQueries

\* MaxRows reactions on MaxRows livestreams carrying MaxRows join rows
C11_Witness ==
    /\ fillCall = "reaction"
    /\ Len(rxModels) = MaxRows
    /\ Cardinality({ rxModels[i].LivestreamID : i \in 1 .. Len(rxModels) }) = MaxRows
    /\ Cardinality(livestreamTags) = MaxRows
    /\ rxBulk.err = ""
    /\ rxQueries = ReactionBulkQueries

\* C12: a request cancelled while its transaction is open eventually
\* returns holding no lock and with no uncommitted write left; it is never
\* created, no committed row carries its livestream id, and every slot
\* stands at its seeded capacity less the created requests that selected it.
C12_Cancellation ==
    /\ \A r \in Requests :
          (ctxErr[r] # "") ~>
             ( /\ pc[r] = "done"
               /\ \A id \in SlotIDs : lockHolder[id] # r
               /\ txUpdated[r] = {} /\ txLivestreams[r] = {} /\ txLivestreamTags[r] = <<>> )
    /\ [](\A r \in Requests :
            ctxErr[r] # "" =>
               /\ outcome[r] # "Created"
               /\ \A l \in livestreams : l.ID # livestreamID[r]
               /\ \A lt \in livestreamTags : lt.LivestreamID # livestreamID[r]
               /\ \A id \in SlotIDs :
                     reservationSlots[id] =
                        seededSlots[id]
                        - Cardinality({ q \in Requests \ {r} :
                                          Created(q) /\ id \in Selected(q) }))

\* request 1 cancelled after its inserts, holding the lock request 2 waited
\* for; request 2 then took the slot
C12_Witness ==
    /\ ctxErr[1] # "" /\ pc[1] = "done" /\ outcome[1] = "StorageError"
    /\ livestreamID[1] > 0 /\ Len(req[1].Tags) = 1
    /\ Created(2)
    /\ livestreamID[2] > livestreamID[1]
    /\ Selected(1) \cap Selected(2) # {}
    /\ \A id \in Selected(2) : seededSlots[id] = 1

\* C13: getLivecommentReportsHandler answers 200 only to the owner of the
\* livestream, and then with exactly the reports of that livestream; any
\* other caller gets 403 and an empty body whatever the reports are.
C13_OwnerOnlyReports ==
    httpReq.handler = "getLivecommentReports" =>
       LET owners == { l.UserID : l \in { x \in livestreams : x.ID = httpReq.livestreamID } }
       IN  /\ httpRes.status = 200 <=> owners = {httpReq.userID}
           /\ (owners # {} /\ owners # {httpReq.userID}) => httpRes.status = 403
           /\ httpRes.status # 200 => httpRes.body = <<>>
           /\ httpRes.status = 200 =>
                 /\ { httpRes.body[i].ID : i \in 1 .. Len(httpRes.body) }
                       = { rp.ID : rp \in { x \in livecommentReports :
                                               x.LivestreamID = httpReq.livestreamID } }
                 /\ \A i \in 1 .. Len(httpRes.body) :
                       httpRes.body[i].LivestreamID = httpReq.livestreamID

\* a caller who owns another livestream asks for a reported livestream of
\* someone else
C13_Witness ==
    /\ httpReq.handler = "getLivecommentReports"
    /\ httpRes.status = 403
    /\ \E l \in livestreams : l.UserID = httpReq.userID
    /\ \E rp \in livecommentReports : rp.LivestreamID = httpReq.livestreamID

\* the positions of a request after its locking SELECT has returned
Locked == { "check", "update", "insert", "tags", "fill", "commit" }

\* C14: from the capacity check to its return a request holds the row lock
\* of every slot it selected; the capacity it checks is the latest value of
\* the row; no two requests past the locking SELECT share a slot; and
\* while a request is there, the capacity of its slots is changed by no
\* step but its own UPDATE, commit or rollback.
C14_LockThenRecheck ==
    /\ [](\A r \in Requests :
            pc[r] \in Locked =>
               /\ \A id \in Selected(r) : lockHolder[id] = r
               /\ pc[r] = "check" =>
                     \A id \in Selected(r) :
                        /\ SlotSeenBy(r, id) = reservationSlots[id]
                        /\ SlotSeenBy(r, id) = SlotLatest(id)
               /\ \A q \in Requests \ {r} :
                     pc[q] \in Locked => Selected(q) \cap Selected(r) = {})
    /\ [][\A r \in Requests : \A id \in Selected(r) :
            ( /\ pc[r] \in Locked
              /\ \/ SlotLatest(id)' # SlotLatest(id)
                 \/ reservationSlots'[id] # reservationSlots[id] )
            => /\ pc'[r] # pc[r]
               /\ pc[r] \in {"update", "commit"} \/ pc'[r] = "done"]_vars

\* request 2 waits in its locking SELECT for the slot request 1 has
\* checked and decremented
C14_Witness ==
    /\ pc[1] = "commit"
    /\ pc[2] = "select"
    /\ Selected(1) \cap Selected(2) # {}
    /\ \A id \in Selected(1) : lockHolder[id] = 1 /\ id \in txUpdated[1]
    /\ \E id \in Selected(1) \cap Selected(2) : seededSlots[id] = 1

\* C15: the step that commits a reservation takes exactly 1 from every
\* slot the window selects, which are the slots the locking SELECT returned
\* and the request holds locked, and leaves every other slot as it was; it
\* adds exactly one livestreams row, that of the request, and exactly one
\* livestream_tags row per requested tag id.
C15_EffectOfSuccess ==
    [][\A r \in Requests :
         (pc[r] = "commit" /\ Created(r)') =>
            /\ \A id \in SlotIDs :
                  reservationSlots'[id] =
                     reservationSlots[id] - (IF id \in Selected(r) THEN 1 ELSE 0)
            /\ { slots[r][i].ID : i \in 1 .. Len(slots[r]) } = Selected(r)
            /\ { id \in SlotIDs : lockHolder[id] = r } = Selected(r)
            /\ livestreams \subseteq livestreams'
            /\ livestreams' \ livestreams =
                  { [ID |-> livestreamID[r], UserID |-> req[r].UserID,
                     StartAt |-> req[r].StartAt, EndAt |-> req[r].EndAt] }
            /\ livestreamTags \subseteq livestreamTags'
            /\ Cardinality(livestreamTags' \ livestreamTags) = Len(req[r].Tags)
            /\ \A i \in 1 .. Len(req[r].Tags) :
                  Cardinality({ lt \in livestreamTags' \ livestreamTags :
                                  /\ lt.LivestreamID = livestreamID[r]
                                  /\ lt.TagID = req[r].Tags[i] }) = 1]_vars

\* a reservation of the first slot alone, with one tag
C15_Witness ==
    \E r \in Requests :
        /\ Created(r)
        /\ Selected(r) = {1}
        /\ Len(req[r].Tags) = 1
        /\ reservationSlots[1] = seededSlots[1] - 1
        /\ reservationSlots[2] = seededSlots[2]
        /\ seededSlots[2] > 0
        /\ Cardinality(livestreams) = 1
        /\ Cardinality(livestreamTags) = 1

\* the statements a listing handler sends when it resolves the nested
\* entities through the bulk composer: its own, and the composer's
ListingQueryBound(handler) ==
    CASE handler = "searchLivestreams" -> 2 + LivestreamBulkQueries
      [] handler = "getMyLivestreams" -> 1 + LivestreamBulkQueries
      [] handler = "getUserLivestreams" -> 2 + LivestreamBulkQueries
      [] handler = "getReactions" -> 1 + ReactionBulkQueries
      [] OTHER -> 0

\* C16: every listing handler sends at most a fixed number of statements
\* per request, however many rows it lists.
C16_ListingsUseBulk ==
    httpReq.handler \in { "searchLivestreams", "getMyLivestreams", "getUserLivestreams",
                          "getReactions" }
       => httpRes.queries <= ListingQueryBound(httpReq.handler)

\* C17: a request rejected for its window, for an exhausted slot or for a
\* tag id that does not exist is answered with a client-error status (4xx).
C17_ClientRejections ==
    \A r \in Requests :
        ( /\ pc[r] = "done"
          /\ \/ outcome[r] \in {"BadWindow", "SlotExhausted"}
             \/ outcome[r] = "FillFailed" /\ NamesMissingTag(r) )
        => statusOf(outcome[r]) \in 400 .. 499

\* C18: when the owner of an input livestream row, or the user, the
\* livestream or the livestream's owner of an input reaction row, is not in
\* its table, the bulk composer returns an error and a nil result.
C18_DanglingReference ==
    LET hasUser(id) == \E u \in users : u.ID = id
        hasLivestream(id) == \E l \in livestreams : l.ID = id /\ hasUser(l.UserID)
    IN  /\ ( /\ fillCall = "livestream"
              /\ \E i \in 1 .. Len(lsModels) : ~ hasUser(lsModels[i].UserID) )
            => lsBulk.err # "" /\ lsBulk.val = NilMap
        /\ ( /\ fillCall = "reaction"
              /\ \E i \in 1 .. Len(rxModels) :
                    ~ hasUser(rxModels[i].UserID) \/ ~ hasLivestream(rxModels[i].LivestreamID) )
            => rxBulk.err # "" /\ rxBulk.val = <<>>

\* two reactions, the first sound, the second on a livestream whose owner
\* does not exist
C18_Witness ==
    /\ fillCall = "reaction"
    /\ Len(rxModels) = 2
    /\ rxModels[1].UserID = 1 /\ rxModels[2].UserID = 1
    /\ \E l \in livestreams : l.ID = rxModels[1].LivestreamID /\ l.UserID = 1
    /\ \E l \in livestreams : l.ID = rxModels[2].LivestreamID /\ l.UserID = 2
    /\ \A l \in livestreams : \E lt \in livestreamTags : lt.LivestreamID = l.ID /\ lt.TagID = 1
    /\ rxBulk.err # ""
    /\ rxBulk.val = <<>>

\* C19: called with no row, the bulk composers return no error, an empty
\* result, and send no statement.
C19_EmptyInput ==
    /\ (fillCall = "livestream" /\ lsModels = <<>>) =>
          lsBulk.err = "" /\ DOMAIN lsBulk.val = {} /\ lsQueries = 0
    /\ (fillCall = "reaction" /\ rxModels = <<>>) =>
          rxBulk.err = "" /\ Len(rxBulk.val) = 0 /\ rxQueries = 0

\* the livestream composer called with no row while the tables hold rows
C19_Witness ==
    /\ fillCall = "livestream"
    /\ lsModels = <<>>
    /\ livestreams # {} /\ livestreamTags # {}
    /\ lsBulk.err = ""
    /\ lsQueries = 0

\* C20: a successful search lists one entity per fetched row in the order
\* of the rows: without tag, the livestreams by id descending (the first
\* `limit` of them); by tag, the livestream of every join row of that tag
\* by livestream id descending.  A successful getReactionsHandler lists one
\* reaction per row of the livestream (the first `limit`), by creation time
\* descending.
C20_OrderAndCardinality ==
    LET body == httpRes.body
        n == Len(body)
        capped(k) == IF httpReq.limit = NoLimit \/ httpReq.limit >= k THEN k
                     ELSE httpReq.limit
        tagged == { lt \in livestreamTags :
                      \E tg \in tags : tg.Name = httpReq.tag /\ tg.ID = lt.TagID }
        mine == { rx \in reactions : rx.LivestreamID = httpReq.livestreamID }
    IN  /\ (httpReq.handler = "searchLivestreams" /\ httpRes.status = 200 /\ httpReq.tag = "")
            => /\ n = capped(Cardinality(livestreams))
               /\ \A i \in 1 .. n : \E l \in livestreams : l.ID = body[i].ID
               /\ \A i, j \in 1 .. n : i < j => body[i].ID > body[j].ID
               /\ \A l \in livestreams : n > 0 /\ l.ID > body[n].ID =>
                     \E i \in 1 .. n : body[i].ID = l.ID
        /\ (httpReq.handler = "searchLivestreams" /\ httpRes.status = 200 /\ httpReq.tag # "")
            => /\ n = Cardinality(tagged)
               /\ \A i, j \in 1 .. n : i < j => body[i].ID >= body[j].ID
               /\ \A l \in livestreams :
                     Cardinality({ i \in 1 .. n : body[i].ID = l.ID })
                        = Cardinality({ lt \in tagged : lt.LivestreamID = l.ID })
        /\ (httpReq.handler = "getReactions" /\ httpRes.status = 200)
            => /\ n = capped(Cardinality(mine))
               /\ \A i \in 1 .. n : \E rx \in mine : /\ rx.ID = body[i].ID
                                                       /\ rx.CreatedAt = body[i].CreatedAt
               /\ \A i \in 1 .. n : body[i].Livestream.ID = httpReq.livestreamID
               /\ \A i, j \in 1 .. n : i < j => /\ body[i].CreatedAt >= body[j].CreatedAt
                                                  /\ body[i].ID # body[j].ID
               /\ \A rx \in mine : n > 0 /\ rx.CreatedAt > body[n].CreatedAt =>
                     \E i \in 1 .. n : body[i].ID = rx.ID

\* a search by tag listing two livestreams
C20_Witness ==
    /\ httpReq.handler = "searchLivestreams"
    /\ httpReq.tag = "t1"
    /\ httpRes.status = 200
    /\ Len(httpRes.body) = 2
    /\ httpRes.body[1].ID = 2
    /\ httpRes.body[2].ID = 1

\* C21: no id occurs twice in a key list the bulk composers hand to a
\* set-membership query.
C21_KeysDeduplicated ==
    \A k \in 1 .. Len(inKeys) :
        \A i, j \in 1 .. Len(inKeys[k]) : i # j => inKeys[k][i] # inKeys[k][j]

\* C22: for every slot, the seeded capacity less the committed capacity is
\* the number of committed livestreams rows whose window contains the slot.
C22_CapacityConservation ==
    \A s \in ReservationSlotRows :
        seededSlots[s.ID] - reservationSlots[s.ID] =
           Cardinality({ l \in livestreams : s.StartAt >= l.StartAt /\ s.EndAt <= l.EndAt })

\* one request committed over both slots, the other rolled back after it
\* had decremented the first slot and inserted its rows
C22_Witness ==
    \E a, b \in Requests :
        /\ Created(a) /\ Selected(a) = SlotIDs
        /\ Failed(b) /\ livestreamID[b] > 0 /\ 1 \in Selected(b)
        /\ Cardinality(livestreams) = 1
        /\ \A id \in SlotIDs : seededSlots[id] = 2 /\ reservationSlots[id] = 1

\* C23: on a store that never fails and under fair scheduling, every
\* started request eventually returns, created or rejected, holding no
\* lock and with no uncommitted write.
C23_Progress ==
    \A r \in Requests :
        (pc[r] \in Open) ~>
           ( /\ pc[r] = "done"
             /\ outcome[r] \in {"Created", "BadWindow", "SlotExhausted", "FillFailed"}
             /\ \A id \in SlotIDs : lockHolder[id] # r
             /\ txUpdated[r] = {} /\ txLivestreams[r] = {} /\ txLivestreamTags[r] = <<>> )

\* request 2 waits for slot 2 while request 1, holding both slots, is
\* about to fail on its missing tag
C23_Witness ==
    /\ pc[1] = "fill" /\ NamesMissingTag(1)
    /\ Selected(1) = SlotIDs
    /\ \A id \in SlotIDs : lockHolder[id] = 1
    /\ pc[2] = "select" /\ Selected(2) = {2}

\* a request inside the horizon, naming only existing tags, whose window
\* contains no slot
Unchecked(r) ==
    /\ ~ badReservationTimeRange(req[r].StartAt, req[r].EndAt)
    /\ ~ NamesMissingTag(r)
    /\ \A s \in ReservationSlotRows :
          ~ (s.StartAt >= req[r].StartAt /\ s.EndAt <= req[r].EndAt)

\* C24: on a store that never fails, a started request whose window
\* contains no slot (and that passes the horizon check and names only
\* existing tags) is eventually created, whatever the capacities, and no
\* step of it changes a slot capacity, committed or uncommitted.
C24_UncheckedAdmission ==
    /\ \A r \in Requests : (pc[r] \in Open /\ Unchecked(r)) ~> Created(r)
    /\ [](\A r \in Requests : (pc[r] = "done" /\ Unchecked(r)) => Created(r))
    /\ [][\A r \in Requests :
            (pc[r] \in Open /\ Unchecked(r) /\ pc'[r] # pc[r]) =>
               /\ reservationSlots' = reservationSlots
               /\ \A id \in SlotIDs : SlotLatest(id)' = SlotLatest(id)]_vars

\* a window over the middle of two exhausted slots, committed
C24_Witness ==
    \E r \in Requests :
        /\ Created(r)
        /\ Unchecked(r)
        /\ Overlapped(r) = SlotIDs
        /\ \A id \in SlotIDs : seededSlots[id] = 0 /\ reservationSlots[id] = 0


\* ------------------------------------------------------------------- C25
UserExists(id) == \E u \in users : u.ID = id
LivestreamExists(id) == \E l \in livestreams : l.ID = id
DanglingErrors ==
    { "owner not found", "tag not found", "user not found", "livestream not found" }

\* C25: in every reachable state every committed livestreams row has an
\* owner in users, every committed livestream_tags row names a tag in tags,
\* and every committed reactions row names a user in users and a committed
\* livestreams row; so neither bulk composer, handed the committed rows,
\* returns a not-found error.
C25_ReferentialIntegrity ==
    /\ \A l \in livestreams : UserExists(l.UserID)
    /\ \A lt \in livestreamTags : TagExists(lt.TagID) /\ LivestreamExists(lt.LivestreamID)
    /\ \A rx \in reactions : UserExists(rx.UserID) /\ LivestreamExists(rx.LivestreamID)
    /\ fillLivestreamResponseBulk(users, livestreamTags, tags, SortByID(livestreams)).err
          \notin DanglingErrors
    /\ fillReactionResponseBulk(users, livestreams, livestreamTags, tags,
                                SortByID(reactions)).err \notin DanglingErrors
    /\ \A rx \in reactions :
          fillReactionResponse(users, livestreams, livestreamTags, tags, rx).err = ""

\* a reservation with a tag and a reaction on it are committed, after a
\* reservation by a user who does not exist and a reaction on a livestream
\* that does not exist were turned down
C25_Witness ==
    /\ \E r \in Requests : Created(r) /\ req[r].Tags = <<1>>
    /\ \E r \in Requests : Failed(r) /\ outcome[r] = "FillFailed" /\ req[r].UserID = 2
    /\ \E rx \in reactions : rx.ID > 1
    /\ Cardinality(reactions) = 1
    /\ httpReq.handler = "postReaction"
    /\ httpRes.status = 201

====
